---- MODULE Spec2Model ----
(***************************************************************************)
(* A model of the pawn preview composer: the asset resolver                *)
(* (src/rwpawn/assets.py), the layer compositor and sheet assembler        *)
(* (src/rwpawn/compose.py) and the command line's plain path               *)
(* (src/rwpawn/cli.py).                                                    *)
(*                                                                         *)
(* An image is a record [w, h, bx, by, bw, bh, px, src]: a w x h raster    *)
(* whose pixels are px = <<r, g, b, a>> inside the box (bx, by, bw, bh)    *)
(* and transparent <<0,0,0,0>> outside it.  src is the path of the file    *)
(* the image was decoded from; it is bookkeeping of the model (a PIL image *)
(* does not remember it) and no operation of the program reads it.         *)
(* A frame is a record [w, h, painted]: a w x h raster that starts         *)
(* transparent and on which the entries of painted were alpha-composited   *)
(* in sequence order.                                                      *)
(***************************************************************************)
EXTENDS Integers, Sequences, FiniteSets, TLC

VARIABLES
    pc,        \* position: "main" and "exit" in main; "call", "loop", "done" and "raised" in
               \* compose_preview; "fn" and "returned" for a single function call
    req,       \* the arguments of compose_preview
    tree,      \* the asset tree under assets_root, and whether psd_tools is importable
    dirs,      \* compose_preview's local dirs
    frames,    \* compose_preview's local frames
    out,       \* the sheet compose_preview returns
    call,      \* the arguments of a single function call (get_off, apply_color, load_apparel)
    ret        \* what that call returned

vars == <<pc, req, tree, dirs, frames, out, call, ret>>

\* Python's None where an image, a map or a colour is expected, and where a
\* name is expected
None == [none |-> TRUE]
NoName == "None"

\* ------------------------------------------------------------------ bounds

\* files missing from the reference asset tree
MaxMissing == 1
\* length of the requested direction list
MaxDirs == 2
\* length of the requested apparel list (besides the full wardrobe)
MaxApparel == 1

\* ------------------------------------------------------------- arithmetic

Min(S) == CHOOSE x \in S : \A y \in S : x <= y
Max(S) == CHOOSE x \in S : \A y \in S : x >= y

RECURSIVE SumSeq(_)
SumSeq(s) == IF s = <<>> THEN 0 ELSE Head(s) + SumSeq(Tail(s))

RECURSIVE Flatten(_)
Flatten(ss) == IF ss = <<>> THEN <<>> ELSE Head(ss) \o Flatten(Tail(ss))

Range(s) == {s[i] : i \in DOMAIN s}

\* ---------------------------------------------------------------- assets

DIRECTIONS == <<"north", "south", "east">>

HEADGEAR == {"AdvancedHelmet", "BowlerHat", "ClothMask", "CowboyHat", "Hood",
             "PowerArmorHelmet", "PsychicFoilHelmet", "ReconArmorHelmet",
             "SimpleHelmet", "TribalHeaddress", "Tuque", "Veil", "WarMask"}
OUTER == {"Cape", "Duster", "FlakJacket", "Jacket", "Parka", "PlateArmor",
          "PowerArmor", "ReconArmor", "Robe"}
SHIRTS == {"ShirtBasic", "ShirtButton"}
PANTS == {"Pants", "FlakPants"}
BELTS_PACKS == {"ShieldBelt", "FirefoamPack", "SmokepopPack"}

\* The canonical tile is TILE x TILE; DOUBLE x DOUBLE files are halved.
TILE == 128
DOUBLE == 256

\* A path is [dir, stem, ext]: the directories below assets_root, the parts
\* of the file name and its suffix.
Path(dir, stem, ext) == [dir |-> dir, stem |-> stem, ext |-> ext]

\* p.exists() for a file: t.files holds the paths of the files of the tree
Exists(t, p) == p \in t.files

\* The width and height of the raster a file of the model holds: tiles,
\* but for smaller hair, double-size beards, eyes at their native sizes and
\* a small belt.
FileSize(p) ==
    CASE p.dir[1] = "Hairs"           -> <<96, 112>>
      [] p.dir[1] = "Beards"          -> <<DOUBLE, DOUBLE>>
      [] p.dir[1] = "HeadAttachments" -> IF p.stem[1] = "WideEyes" THEN <<151, 31>> ELSE <<42, 42>>
      [] p.dir[1] = "Apparel"         -> IF p.stem[1] = "ShieldBelt" THEN <<64, 64>> ELSE <<TILE, TILE>>
      [] OTHER                        -> <<TILE, TILE>>

\* The pixel the model gives the artwork of a file: one colour per category,
\* shifted by the candidate's specificity and format so that two candidates
\* of one asset never look alike.
FilePixel(p) ==
    LET k == Len(p.stem) * 8 + (IF p.ext = "psd" THEN 3 ELSE 0) + Len(p.dir)
    IN CASE p.dir[1] = "Bodies"          -> <<200 + k, 160, 120, 255>>
         [] p.dir[1] = "Heads"           -> <<180 + k, 150, 110, 255>>
         [] p.dir[1] = "Hairs"           -> <<90 + k, 60, 30, 255>>
         [] p.dir[1] = "Beards"          -> <<70 + k, 50, 20, 255>>
         [] p.dir[1] = "HeadAttachments" -> <<20 + k, 90, 200, 255>>
         [] OTHER                        -> <<40 + k, 220 - k, 100 + k, 255>>

\* Image.open(path).convert("RGBA"): the whole raster is the file's artwork
Decode(p) ==
    LET size == FileSize(p)
    IN [w |-> size[1], h |-> size[2], bx |-> 0, by |-> 0, bw |-> size[1], bh |-> size[2],
        px |-> FilePixel(p), src |-> p]

load_png(t, p) == Decode(p)

load_psd(t, p) == IF ~t.psd THEN None ELSE Decode(p)

\* floor division, as Python's //
FloorDiv(a, b) == a \div b

\* The part of the interval [lo, lo + len) that lies in [0, limit), as
\* <<start, length>>
Clip(lo, len, limit) ==
    LET start == IF lo < 0 THEN 0 ELSE lo
        end == IF lo + len > limit THEN limit ELSE lo + len
    IN <<start, IF end > start THEN end - start ELSE 0>>

\* canvas.alpha_composite(img, (ox, oy)) on a transparent TILE x TILE canvas
\* (lines 72-75), as the Pillow releases that take a negative destination do
\* it: what falls off the canvas is cut, and a source pixel of alpha 0 leaves
\* the canvas pixel <<0,0,0,0>> whatever its colour channels hold.
paste_centered(img) ==
    LET ox == FloorDiv(TILE - img.w, 2)
        oy == FloorDiv(TILE - img.h, 2)
        cx == Clip(img.bx + ox, img.bw, TILE)
        cy == Clip(img.by + oy, img.bh, TILE)
    IN [img EXCEPT !.w = TILE, !.h = TILE,
                   !.bx = cx[1], !.bw = cx[2], !.by = cy[1], !.bh = cy[2],
                   !.px = IF img.px[4] = 0 THEN <<0, 0, 0, 0>> ELSE img.px]

\* For an input wider or higher than the tile the destination is negative:
\* normalize_image is then the outcome of the Pillow releases that cut the
\* paste; the releases that reject it raise ValueError (NormalizeOutcomes).
normalize_image(img) ==
    IF img.w = TILE /\ img.h = TILE THEN img
    ELSE IF img.w = DOUBLE /\ img.h = DOUBLE
    THEN [img EXCEPT !.w = TILE, !.h = TILE,
                     !.bx = FloorDiv(img.bx, 2), !.by = FloorDiv(img.by, 2),
                     !.bw = FloorDiv(img.bw, 2), !.bh = FloorDiv(img.bh, 2)]
    ELSE paste_centered(img)

\* What Image.alpha_composite raises for a negative destination where the
\* installed Pillow does not take one
ValueError == [raised |-> "ValueError"]

\* Every outcome normalize_image can have on img, over the Pillow releases
NormalizeOutcomes(img) ==
    {normalize_image(img)}
    \cup (IF (img.w > TILE \/ img.h > TILE) /\ <<img.w, img.h>> # <<DOUBLE, DOUBLE>>
          THEN {ValueError} ELSE {})

find_body(t, body_type, direction) ==
    LET p == Path(<<"Bodies">>, <<"Naked", body_type, direction>>, "png")
    IN IF Exists(t, p) THEN normalize_image(load_png(t, p)) ELSE None

\* The first candidate, in order, that exists and decodes: a .psd that
\* exists while psd_tools is missing is passed over.
RECURSIVE FirstDecodable(_, _)
FirstDecodable(t, candidates) ==
    IF candidates = <<>> THEN None
    ELSE LET p == Head(candidates)
         IN IF Exists(t, p) /\ p.ext = "png"
            THEN normalize_image(load_png(t, p))
            ELSE IF Exists(t, p) /\ p.ext = "psd" /\ load_psd(t, p) # None
            THEN normalize_image(load_psd(t, p))
            ELSE FirstDecodable(t, Tail(candidates))

\* head_name.split("_", 1)[0] on the head names of the model
GenderPrefix(head_name) ==
    CASE head_name = "Male_Average_Normal"   -> "Male"
      [] head_name = "Female_Average_Normal" -> "Female"
      [] head_name = "None_Average_Skull"    -> "None"
      [] OTHER                               -> head_name

\* HeadCandidates with the top-level paths tried before the gendered ones
HeadCandidates_flat_first(head_name, direction) ==
    LET gender_prefix == GenderPrefix(head_name)
        stem == <<head_name, direction>>
    IN << Path(<<"Heads">>, stem, "png"), Path(<<"Heads">>, stem, "psd") >>
       \o (IF gender_prefix \in {"Male", "Female"}
           THEN << Path(<<"Heads", gender_prefix>>, stem, "png"),
                   Path(<<"Heads", gender_prefix>>, stem, "psd") >>
           ELSE <<>>)

HeadCandidates(head_name, direction) ==
    LET gender_prefix == GenderPrefix(head_name)
        stem == <<head_name, direction>>
    IN (IF gender_prefix \in {"Male", "Female"}
        THEN << Path(<<"Heads", gender_prefix>>, stem, "png"),
                Path(<<"Heads", gender_prefix>>, stem, "psd") >>
        ELSE <<>>)
       \o << Path(<<"Heads">>, stem, "png"), Path(<<"Heads">>, stem, "psd") >>

find_head(t, head_name, direction) ==
    IF head_name = NoName THEN None
    ELSE FirstDecodable(t, HeadCandidates(head_name, direction))

load_eyes(t, eyes_name, gender) ==
    IF eyes_name = NoName THEN None
    ELSE LET g == IF gender = NoName THEN "Male" ELSE gender
             p == Path(<<"HeadAttachments", eyes_name, g>>, <<eyes_name, g>>, "png")
         IN IF Exists(t, p) THEN load_png(t, p) ELSE None

find_hair(t, hair, direction) ==
    IF hair = NoName THEN None
    ELSE LET p == Path(<<"Hairs">>, <<hair, direction>>, "png")
         IN IF Exists(t, p) THEN normalize_image(load_png(t, p)) ELSE None

\* find_beard without the north rule
find_beard_any_direction(t, beard, direction) ==
    IF beard = NoName THEN None
    ELSE LET p == Path(<<"Beards">>, <<"Beard", beard, direction>>, "png")
         IN IF Exists(t, p) THEN normalize_image(load_png(t, p)) ELSE None

find_beard(t, beard, direction) ==
    IF beard = NoName THEN None
    ELSE IF direction = "north" THEN None
    ELSE LET p == Path(<<"Beards">>, <<"Beard", beard, direction>>, "png")
         IN IF Exists(t, p) THEN normalize_image(load_png(t, p)) ELSE None

\* The candidates of one format, most specific first
VariantCandidates(dirname, base_name, body_type, direction, ext) ==
    << Path(<<"Apparel", dirname>>, <<base_name, body_type, direction>>, ext),
       Path(<<"Apparel", dirname>>, <<base_name, direction>>, ext),
       Path(<<"Apparel", dirname>>, <<base_name>>, ext) >>

\* The generator going by specificity first and format second
find_apparel_variant_paths_by_specificity(t, dirname, base_name, body_type, direction) ==
    LET png == VariantCandidates(dirname, base_name, body_type, direction, "png")
        psd == VariantCandidates(dirname, base_name, body_type, direction, "psd")
    IN SelectSeq(<<png[1], psd[1], png[2], psd[2], png[3], psd[3]>>, LAMBDA p : Exists(t, p))

\* The paths the generator yields, in the order it yields them
find_apparel_variant_paths(t, dirname, base_name, body_type, direction) ==
    SelectSeq(VariantCandidates(dirname, base_name, body_type, direction, "png")
              \o VariantCandidates(dirname, base_name, body_type, direction, "psd"),
              LAMBDA p : Exists(t, p))

\* str.lower() on the apparel names of the model
Lower(name) ==
    CASE name = "Pants"      -> "pants"
      [] name = "ShirtBasic" -> "shirtbasic"
      [] name = "Jacket"     -> "jacket"
      [] name = "ShieldBelt" -> "shieldbelt"
      [] name = "CowboyHat"  -> "cowboyhat"
      [] name = "Mystery"    -> "mystery"
      [] name = "Hood"       -> "hood"
      [] OTHER               -> name

\* What a call raises when Apparel/ itself is missing (Path.iterdir)
FileNotFoundError == [raised |-> "FileNotFoundError"]

\* The directory load_apparel settles on: the exact name, else the entry of
\* Apparel/ equal to it ignoring case (the trees of the model hold at most
\* one), else None; FileNotFoundError when Apparel/ cannot be listed.
ApparelDir(t, name) ==
    IF name \in t.adirs THEN [name |-> name]
    ELSE IF ~t.apparel THEN FileNotFoundError
    ELSE IF \E d \in t.adirs : Lower(d) = Lower(name)
    THEN [name |-> CHOOSE d \in t.adirs : Lower(d) = Lower(name)]
    ELSE None

load_apparel(t, name, body_type, direction) ==
    LET apparel_dir == ApparelDir(t, name)
    IN IF apparel_dir \in {None, FileNotFoundError} THEN apparel_dir
       ELSE LET base_name == apparel_dir.name
            IN FirstDecodable(t, find_apparel_variant_paths(t, apparel_dir.name, base_name,
                                                            body_type, direction))

categorize(name) ==
    IF name \in PANTS THEN "pants"
    ELSE IF name \in SHIRTS THEN "shirt"
    ELSE IF name \in OUTER THEN "outer"
    ELSE IF name \in BELTS_PACKS THEN "belt"
    ELSE IF name \in HEADGEAR THEN "headgear"
    ELSE "apparel"

BucketKeys == {"pants", "shirt", "outer", "belt", "headgear", "apparel"}

\* out[key]: the images that resolved, of the names categorize puts under
\* key, in request order; imgs[i] is what load_apparel returned for apparels[i]
RECURSIVE Bucket(_, _, _, _)
Bucket(apparels, imgs, key, i) ==
    IF i > Len(apparels) THEN <<>>
    ELSE IF imgs[i] # None /\ categorize(apparels[i]) = key
    THEN <<imgs[i]>> \o Bucket(apparels, imgs, key, i + 1)
    ELSE Bucket(apparels, imgs, key, i + 1)

collect_apparel_images(t, apparels, body_type, direction) ==
    LET imgs == [i \in DOMAIN apparels |-> load_apparel(t, apparels[i], body_type, direction)]
    IN IF \E i \in DOMAIN apparels : imgs[i] = FileNotFoundError
       THEN FileNotFoundError
       ELSE [key \in BucketKeys |-> Bucket(apparels, imgs, key, 1)]

\* --------------------------------------------------------------- compose

\* default_head_offsets with the south head not raised
default_head_offsets_level == [d \in Range(DIRECTIONS) |-> <<0, 0>>]

default_head_offsets ==
    [d \in Range(DIRECTIONS) |-> IF d = "south" THEN <<0, -30>> ELSE <<0, 0>>]
default_hair_offsets_rel ==
    [d \in Range(DIRECTIONS) |-> IF d = "south" THEN <<0, -5>> ELSE <<0, 0>>]
default_eyes_offsets_rel ==
    [d \in Range(DIRECTIONS) |-> IF d = "south" THEN <<0, -5>> ELSE <<0, 0>>]
default_beard_offsets_rel ==
    [d \in Range(DIRECTIONS) |-> IF d = "south" THEN <<0, -5>> ELSE <<0, 0>>]
default_headgear_offsets_rel ==
    [d \in Range(DIRECTIONS) |-> IF d = "south" THEN <<0, -8>> ELSE <<0, 0>>]
default_canvas_offsets ==
    [d \in Range(DIRECTIONS) |-> IF d = "south" THEN <<0, 10>> ELSE <<0, 0>>]

\* "m and k in m" for an optional dict m
HasKey(m, k) == m # None /\ DOMAIN m # {} /\ k \in DOMAIN m

\* get_off written with "provided.get(d) or ...": an override of (0,0) is
\* falsy and falls through to the default
get_off_falsy(d, provided, defaults) ==
    IF HasKey(provided, d) /\ provided[d] # <<0, 0>> THEN provided[d]
    ELSE IF d \in DOMAIN defaults THEN defaults[d]
    ELSE <<0, 0>>

get_off(d, provided, defaults) ==
    IF HasKey(provided, d) THEN provided[d]
    ELSE IF d \in DOMAIN defaults THEN defaults[d]
    ELSE <<0, 0>>

get_color(colors, key) == IF HasKey(colors, key) THEN colors[key] ELSE None

\* Image.convert("L"): ITU-R 601-2 luma in 16.16 fixed point
Luminance(px) == (px[1] * 19595 + px[2] * 38470 + px[3] * 7471 + 32768) \div 65536

\* ImageOps.colorize(lum, black=(0, 0, 0), white=rgb) followed by
\* putalpha(alpha), on one pixel
TintPixel(px, rgb) ==
    LET l == Luminance(px)
    IN << (l * rgb.r) \div 255, (l * rgb.g) \div 255, (l * rgb.b) \div 255, px[4] >>

\* apply_color testing the colour with any(rgb): black counts as no colour
apply_color_black_is_none(img, rgb) ==
    IF rgb = None \/ rgb = [r |-> 0, g |-> 0, b |-> 0] THEN img
    ELSE [img EXCEPT !.px = TintPixel(img.px, rgb)]

\* The tint maps the transparent pixel <<0,0,0,0>> to itself, so the pixels
\* outside the box stay what they were.
apply_color(img, rgb) ==
    IF rgb = None THEN img ELSE [img EXCEPT !.px = TintPixel(img.px, rgb)]

\* place(img, x, y); role names the layer and is bookkeeping of the model
Placement(img, x, y, role) == [img |-> img, x |-> x, y |-> y, role |-> role]

canvas_offset(r, d) == get_off(d, r.canvas_offsets, default_canvas_offsets)
head_offset(r, d) == get_off(d, r.head_offsets, default_head_offsets)

\* PlaceRelative with the head offset left out
PlaceRelative_no_head(r, d, img, rel, role) ==
    LET c == canvas_offset(r, d)
    IN Placement(img, c[1] + rel[1], c[2] + rel[2], role)

\* An image placed relative to the head (lines 143-147, 160-169)
PlaceRelative(r, d, img, rel, role) ==
    LET c == canvas_offset(r, d)
        h == head_offset(r, d)
    IN Placement(img, c[1] + h[1] + rel[1], c[2] + h[2] + rel[2], role)

\* place_body with the body at its own offset, the canvas offset left out
place_body_without_canvas(r, t, d) ==
    LET body == find_body(t, r.body_type, d)
    IN IF body = None THEN <<>>
       ELSE IF HasKey(r.body_offsets, d)
       THEN << Placement(body, r.body_offsets[d][1], r.body_offsets[d][2], "body") >>
       ELSE << Placement(body, 0, 0, "body") >>

place_body(r, t, d) ==
    LET c == canvas_offset(r, d)
        body == find_body(t, r.body_type, d)
    IN IF body = None THEN <<>>
       ELSE IF HasKey(r.body_offsets, d)
       THEN << Placement(body, c[1] + r.body_offsets[d][1], c[2] + r.body_offsets[d][2], "body") >>
       ELSE << Placement(body, c[1], c[2], "body") >>

\* place_bucket with the clothes following the body: the body offset
\* override added to the canvas offset
place_bucket_on_body(r, d, buckets, key) ==
    LET c == canvas_offset(r, d)
        b == IF HasKey(r.body_offsets, d) THEN r.body_offsets[d] ELSE <<0, 0>>
    IN [i \in DOMAIN buckets[key] |->
          Placement(apply_color(buckets[key][i], get_color(r.colors, key)),
                    c[1] + b[1], c[2] + b[2], key)]

\* The images of one bucket, tinted with the bucket's colour, at the canvas offset
place_bucket(r, d, buckets, key) ==
    LET c == canvas_offset(r, d)
    IN [i \in DOMAIN buckets[key] |->
          Placement(apply_color(buckets[key][i], get_color(r.colors, key)), c[1], c[2], key)]

place_head(r, t, d) ==
    LET c == canvas_offset(r, d)
        hd == find_head(t, r.head, d)
        h == head_offset(r, d)
    IN IF hd = None THEN <<>>
       ELSE << Placement(hd, c[1] + h[1], c[2] + h[2], "head") >>

place_hair(r, t, d) ==
    LET h == find_hair(t, r.hair, d)
    IN IF h = None THEN <<>>
       ELSE << PlaceRelative(r, d, apply_color(h, get_color(r.colors, "hair")),
                             get_off(d, r.hair_offsets_rel, default_hair_offsets_rel), "hair") >>

place_eyes(r, t, d) ==
    LET ey == load_eyes(t, r.eyes, r.eyes_gender)
        p == PlaceRelative(r, d, ey, get_off(d, r.eyes_offsets_rel, default_eyes_offsets_rel), "eyes")
    IN IF ey = None THEN <<>>
       ELSE << Placement(ey, 64 - FloorDiv(ey.w, 2) + p.x, 64 - FloorDiv(ey.h, 2) + p.y, "eyes") >>

place_beard(r, t, d) ==
    LET b == find_beard(t, r.beard, d)
    IN IF b = None THEN <<>>
       ELSE << PlaceRelative(r, d, apply_color(b, get_color(r.colors, "beard")),
                             get_off(d, r.beard_offsets_rel, default_beard_offsets_rel), "beard") >>

place_headgear(r, d, buckets) ==
    [i \in DOMAIN buckets["headgear"] |->
        PlaceRelative(r, d, apply_color(buckets["headgear"][i], get_color(r.colors, "headgear")),
                      get_off(d, r.headgear_offsets_rel, default_headgear_offsets_rel), "headgear")]

\* placements_of with the head painted right after the body, under the clothes
placements_head_first(r, t, d, buckets) ==
    place_body(r, t, d)
    \o place_head(r, t, d)
    \o place_bucket(r, d, buckets, "pants")
    \o place_bucket(r, d, buckets, "shirt")
    \o place_bucket(r, d, buckets, "outer")
    \o place_bucket(r, d, buckets, "belt")
    \o place_hair(r, t, d)
    \o place_eyes(r, t, d)
    \o place_beard(r, t, d)
    \o place_headgear(r, d, buckets)
    \o place_bucket(r, d, buckets, "apparel")

\* The placements of one direction, in the order place() is called
\* (lines 118-173); buckets is what collect_apparel_images returned
placements_of(r, t, d, buckets) ==
    place_body(r, t, d)
    \o place_bucket(r, d, buckets, "pants")
    \o place_bucket(r, d, buckets, "shirt")
    \o place_bucket(r, d, buckets, "outer")
    \o place_bucket(r, d, buckets, "belt")
    \o place_head(r, t, d)
    \o place_hair(r, t, d)
    \o place_eyes(r, t, d)
    \o place_beard(r, t, d)
    \o place_headgear(r, d, buckets)
    \o place_bucket(r, d, buckets, "apparel")

\* compose_frame on a canvas as large as the farthest right and bottom
\* edges, with nothing shifted: placements left of or above the origin are cut
compose_frame_unshifted(placements, d) ==
    IF placements # <<>>
    THEN [w |-> Max({placements[i].x + placements[i].img.w : i \in DOMAIN placements}),
          h |-> Max({placements[i].y + placements[i].img.h : i \in DOMAIN placements}),
          painted |-> placements, d |-> d, placements |-> placements, min_x |-> 0, min_y |-> 0]
    ELSE [w |-> TILE, h |-> TILE, painted |-> <<>>, d |-> d, placements |-> <<>>,
          min_x |-> 0, min_y |-> 0]

\* Lines 175-188.  d, the placements the frame was composed from and its
\* origin (min_x, min_y) in the working canvas are bookkeeping of the model.
compose_frame(placements, d) ==
    IF placements # <<>>
    THEN LET min_x == Min({placements[i].x : i \in DOMAIN placements})
             min_y == Min({placements[i].y : i \in DOMAIN placements})
             max_x == Max({placements[i].x + placements[i].img.w : i \in DOMAIN placements})
             max_y == Max({placements[i].y + placements[i].img.h : i \in DOMAIN placements})
         IN [w |-> max_x - min_x, h |-> max_y - min_y,
             painted |-> [i \in DOMAIN placements |->
                            [placements[i] EXCEPT !.x = @ - min_x, !.y = @ - min_y]],
             d |-> d, placements |-> placements, min_x |-> min_x, min_y |-> min_y]
    ELSE [w |-> TILE, h |-> TILE, painted |-> <<>>, d |-> d, placements |-> <<>>,
          min_x |-> 0, min_y |-> 0]

\* stitch with every frame centred vertically on the sheet
stitch_centred(frs) ==
    LET widths == [i \in DOMAIN frs |-> frs[i].w]
        max_h == IF frs = <<>> THEN TILE ELSE Max({frs[i].h : i \in DOMAIN frs})
    IN [w |-> SumSeq(widths), h |-> max_h,
        painted |-> [i \in DOMAIN frs |->
                       [frame |-> frs[i], x |-> SumSeq(SubSeq(widths, 1, i - 1)),
                        y |-> FloorDiv(max_h - frs[i].h, 2)]]]

\* Lines 190-198: the sheet and where each frame is pasted on it
stitch(frs) ==
    LET widths == [i \in DOMAIN frs |-> frs[i].w]
    IN [w |-> SumSeq(widths),
        h |-> IF frs = <<>> THEN TILE ELSE Max({frs[i].h : i \in DOMAIN frs}),
        painted |-> [i \in DOMAIN frs |->
                       [frame |-> frs[i], x |-> SumSeq(SubSeq(widths, 1, i - 1)), y |-> 0]]]

\* A list argument that may be None: None, or List(q) for the list q
List(q) == [list |-> q]

\* effective_dirs keeping the canonical order of the requested directions
effective_dirs_canonical(directions) ==
    IF directions = None \/ directions.list = <<>> THEN DIRECTIONS
    ELSE SelectSeq(DIRECTIONS \o <<"west">>, LAMBDA d : d \in Range(directions.list))

\* "directions or [...]", line 45
effective_dirs(directions) ==
    IF directions = None \/ directions.list = <<>> THEN DIRECTIONS ELSE directions.list

\* ---------------------------------------------------------------- pixels

Transparent == <<0, 0, 0, 0>>

Covers(img, ox, oy, x, y) ==
    /\ ox + img.bx <= x /\ x < ox + img.bx + img.bw
    /\ oy + img.by <= y /\ y < oy + img.by + img.bh

\* The pixel of img at (x, y) when img lies with its corner at (ox, oy)
PixelAt(img, ox, oy, x, y) == IF Covers(img, ox, oy, x, y) THEN img.px ELSE Transparent

\* Image.alpha_composite on one pixel, for a source that is opaque or
\* transparent (the artwork of the model has no partial alpha)
Over(src, dst) == IF src[4] = 0 THEN dst ELSE src

RECURSIVE PaintedPixel(_, _, _, _)
PaintedPixel(painted, n, x, y) ==
    IF n = 0 THEN Transparent
    ELSE Over(PixelAt(painted[n].img, painted[n].x, painted[n].y, x, y),
              PaintedPixel(painted, n - 1, x, y))

\* The pixel of a composed frame at (x, y)
FramePixel(fr, x, y) == PaintedPixel(fr.painted, Len(fr.painted), x, y)

\* ---------------------------------------------------------------- inputs

\* The apparel names of the model, one per bucket
ApparelNames == {"Pants", "ShirtBasic", "Jacket", "ShieldBelt", "CowboyHat", "Mystery"}

\* The whole wardrobe, requested against the order it is painted in
Wardrobe == <<"Mystery", "CowboyHat", "ShieldBelt", "Jacket", "ShirtBasic", "Pants">>

\* The reference asset tree: body type Male, head Male_Average_Normal, hair
\* Afro, beard Full (with a north file), two eyes assets of odd sizes, and one
\* directory per apparel name holding candidates of differing specificity.
ReferenceFiles ==
    {Path(<<"Bodies">>, <<"Naked", "Male", d>>, "png") : d \in Range(DIRECTIONS)}
    \cup {Path(<<"Heads", "Male">>, <<"Male_Average_Normal", d>>, "png") : d \in Range(DIRECTIONS)}
    \cup {Path(<<"Hairs">>, <<"Afro", d>>, "png") : d \in Range(DIRECTIONS)}
    \cup {Path(<<"Beards">>, <<"Beard", "Full", d>>, "png") : d \in Range(DIRECTIONS)}
    \cup {Path(<<"HeadAttachments", "GrayEyes", "Male">>, <<"GrayEyes", "Male">>, "png"),
          Path(<<"HeadAttachments", "WideEyes", "Male">>, <<"WideEyes", "Male">>, "png")}
    \cup {Path(<<"Apparel", "Pants">>, <<"Pants", "Male", d>>, "png") : d \in Range(DIRECTIONS)}
    \cup {Path(<<"Apparel", "ShirtBasic">>, <<"ShirtBasic", d>>, "png") : d \in Range(DIRECTIONS)}
    \cup {Path(<<"Apparel", "Jacket">>, <<"Jacket", "Male", d>>, "psd") : d \in Range(DIRECTIONS)}
    \cup {Path(<<"Apparel", "ShieldBelt">>, <<"ShieldBelt">>, "png")}
    \cup {Path(<<"Apparel", "CowboyHat">>, <<"CowboyHat", d>>, "png") : d \in Range(DIRECTIONS)}
    \cup {Path(<<"Apparel", "Mystery">>, <<"Mystery", d>>, "png") : d \in Range(DIRECTIONS)}

\* The subsets of S of at most k elements
RECURSIVE UpTo(_, _)
UpTo(S, k) ==
    IF k = 0 THEN {{}}
    ELSE LET smaller == UpTo(S, k - 1)
         IN smaller \cup {m \cup {x} : m \in smaller, x \in S}

Tree(files, psd) == [files |-> files, adirs |-> ApparelNames, apparel |-> TRUE, psd |-> psd]

ReferenceTree == Tree(ReferenceFiles, TRUE)

\* The reference tree with at most MaxMissing files missing, with and
\* without psd_tools
Trees == {Tree(ReferenceFiles \ m, psd) : m \in UpTo(ReferenceFiles, MaxMissing), psd \in BOOLEAN}

\* The sequences over S of length at most n
RECURSIVE SeqsUpTo(_, _)
SeqsUpTo(S, n) ==
    IF n = 0 THEN {<<>>}
    ELSE LET shorter == SeqsUpTo(S, n - 1)
         IN shorter \cup {Append(q, x) : q \in shorter, x \in S}

\* Direction names a caller may pass: compose_preview does not validate them
RequestDirs == Range(DIRECTIONS) \cup {"west"}

DirLists == {None} \cup {List(q) : q \in SeqsUpTo(RequestDirs, MaxDirs)}

ApparelLists == {Wardrobe} \cup SeqsUpTo(ApparelNames, MaxApparel)

\* One override map per offset role, each with an entry for two of the three
\* directions, so that every role meets a direction it overrides (one of
\* them with an explicit (0,0) where the built-in default is not) and one
\* it leaves to the default.
OffsetRoles == <<"body_offsets", "head_offsets", "hair_offsets_rel", "eyes_offsets_rel",
                 "beard_offsets_rel", "headgear_offsets_rel", "canvas_offsets">>

GivenOffsets ==
    [body_offsets         |-> [d \in {"south", "east"}  |-> IF d = "south" THEN <<4, -3>> ELSE <<0, 0>>],
     head_offsets         |-> [d \in {"north", "south"} |-> IF d = "north" THEN <<-2, -50>> ELSE <<0, 0>>],
     hair_offsets_rel     |-> [d \in {"south", "east"}  |-> IF d = "south" THEN <<1, 7>> ELSE <<-6, 2>>],
     eyes_offsets_rel     |-> [d \in {"north", "south"} |-> IF d = "north" THEN <<3, 3>> ELSE <<0, 0>>],
     beard_offsets_rel    |-> [d \in {"south", "east"}  |-> IF d = "south" THEN <<-1, -9>> ELSE <<2, 2>>],
     headgear_offsets_rel |-> [d \in {"north", "east"}  |-> IF d = "north" THEN <<0, -12>> ELSE <<5, 0>>],
     canvas_offsets       |-> [d \in {"south", "east"}  |-> IF d = "south" THEN <<0, 0>> ELSE <<-7, 20>>]]

\* The overrides of a request: role by role, the given map or None
Overrides(given) ==
    [role \in Range(OffsetRoles) |-> IF role \in given THEN GivenOffsets[role] ELSE None]

\* The colour table the command line builds when no --color-* option is
\* given (cli.py lines 170-180), and one with every key set by an option
RGB(r, g, b) == [r |-> r, g |-> g, b |-> b]

\* The colour table with a built-in entry for uncategorized apparel too
CliColors_with_apparel ==
    [hair |-> RGB(59, 42, 31), beard |-> RGB(59, 42, 31), headgear |-> RGB(194, 168, 120),
     body |-> RGB(239, 208, 175), head |-> RGB(239, 208, 175), pants |-> RGB(58, 74, 90),
     shirt |-> RGB(159, 211, 242), outer |-> RGB(47, 62, 92), belt |-> RGB(85, 107, 120),
     apparel |-> RGB(128, 128, 128)]

CliColors ==
    [hair |-> RGB(59, 42, 31), beard |-> RGB(59, 42, 31), headgear |-> RGB(194, 168, 120),
     body |-> RGB(239, 208, 175), head |-> RGB(239, 208, 175), pants |-> RGB(58, 74, 90),
     shirt |-> RGB(159, 211, 242), outer |-> RGB(47, 62, 92), belt |-> RGB(85, 107, 120)]

OptionColors ==
    [hair |-> RGB(0, 0, 0), beard |-> RGB(200, 10, 10), headgear |-> RGB(10, 200, 10),
     body |-> RGB(120, 80, 60), head |-> RGB(120, 80, 60), pants |-> RGB(10, 10, 200),
     shirt |-> RGB(255, 255, 255), outer |-> RGB(90, 90, 0), belt |-> RGB(0, 90, 90),
     apparel |-> RGB(250, 0, 250)]

ColorTables == {None, CliColors, OptionColors}

Request(body_type, hair, beard, head, eyes, apparels, directions, ov, colors) ==
    [body_type |-> body_type, hair |-> hair, beard |-> beard, head |-> head,
     eyes |-> eyes, eyes_gender |-> NoName, apparels |-> apparels,
     directions |-> directions,
     body_offsets |-> ov.body_offsets, head_offsets |-> ov.head_offsets,
     hair_offsets_rel |-> ov.hair_offsets_rel, eyes_offsets_rel |-> ov.eyes_offsets_rel,
     beard_offsets_rel |-> ov.beard_offsets_rel,
     headgear_offsets_rel |-> ov.headgear_offsets_rel,
     canvas_offsets |-> ov.canvas_offsets, colors |-> colors]

\* Everything requested, every direction
FullRequest(eyes, directions, ov, colors) ==
    Request("Male", "Afro", "Full", "Male_Average_Normal", eyes, Wardrobe, directions, ov, colors)

AllRoles == Range(OffsetRoles)

\* The renders of the model, as pairs <<request, tree>>:
\* every tree under the full request;
TreeRenders ==
    {<<FullRequest("GrayEyes", List(DIRECTIONS), Overrides(g), CliColors), t>> :
        g \in {{}}, t \in Trees}
\* every combination of overrides on the reference tree;
OffsetRenders ==
    {<<FullRequest(e, List(DIRECTIONS), Overrides(g), CliColors), ReferenceTree>> :
        g \in SUBSET AllRoles, e \in {"GrayEyes", "WideEyes"}}
\* every choice of the body type and of the head, hair, beard and eyes;
NameRenders ==
    {<<Request(bt, hair, beard, head, eyes, Wardrobe, List(DIRECTIONS), Overrides({}), c),
       ReferenceTree>> :
        bt \in {"Male", "Thin"}, hair \in {NoName, "Afro"}, beard \in {NoName, "Full"},
        head \in {NoName, "Male_Average_Normal"}, eyes \in {NoName, "GrayEyes", "WideEyes"},
        c \in {None, OptionColors}}
\* every apparel list;
ApparelRenders ==
    {<<Request("Male", "Afro", "Full", "Male_Average_Normal", "GrayEyes", ap,
               List(DIRECTIONS), Overrides(g), c), ReferenceTree>> :
        ap \in ApparelLists, g \in {{}, AllRoles}, c \in ColorTables}
\* every direction list.
DirectionRenders ==
    {<<FullRequest(e, dl, Overrides(g), CliColors), ReferenceTree>> :
        dl \in DirLists, g \in {{}, AllRoles}, e \in {"GrayEyes", "WideEyes"}}

\* every apparel list on a tree whose Apparel/ is empty, and on one that
\* has no Apparel/ at all.
BareFiles == {p \in ReferenceFiles : p.dir[1] # "Apparel"}
BareTrees ==
    {[files |-> BareFiles, adirs |-> {}, apparel |-> has_apparel, psd |-> TRUE] :
        has_apparel \in BOOLEAN}
BareRenders ==
    {<<Request("Male", "Afro", "Full", "Male_Average_Normal", "GrayEyes", ap,
               List(DIRECTIONS), Overrides({}), CliColors), t>> :
        ap \in ApparelLists, t \in BareTrees}

\* a body and a head and nothing else, one direction, no overrides.
PlainRenders ==
    {<<Request(bt, NoName, NoName, head, NoName, <<>>, List(<<d>>), Overrides({}), c),
       ReferenceTree>> :
        bt \in {"Male", "Thin"}, head \in {NoName, "Male_Average_Normal"},
        d \in Range(DIRECTIONS), c \in ColorTables}

\* every apparel name, and the whole wardrobe, requested in lower case.
LowerCaseLists ==
    {<<Lower(n)>> : n \in ApparelNames} \cup {[i \in DOMAIN Wardrobe |-> Lower(Wardrobe[i])]}
CaseRenders ==
    {<<Request("Male", "Afro", "Full", "Male_Average_Normal", "GrayEyes", ap,
               List(DIRECTIONS), Overrides(g), CliColors), ReferenceTree>> :
        ap \in LowerCaseLists, g \in {{}, AllRoles}}

Renders ==
    CaseRenders \cup PlainRenders \cup TreeRenders \cup OffsetRenders \cup NameRenders \cup ApparelRenders \cup DirectionRenders
    \cup BareRenders

\* --------------------------------------------------------------- actions

NoCall == [fn |-> "none"]

Init ==
    /\ \E rt \in Renders : req = rt[1] /\ tree = rt[2]
    /\ pc = "call"
    /\ dirs = <<>>
    /\ frames = <<>>
    /\ out = None
    /\ call = NoCall
    /\ ret = None

\* compose_preview is entered: line 45
Enter ==
    /\ pc = "call"
    /\ dirs' = effective_dirs(req.directions)
    /\ pc' = "loop"
    /\ UNCHANGED <<req, tree, frames, out, call, ret>>

\* One turn of the loop over dirs, lines 103-188
RenderDirection ==
    /\ pc = "loop"
    /\ Len(frames) < Len(dirs)
    /\ LET d == dirs[Len(frames) + 1]
       IN \E buckets \in {collect_apparel_images(tree, req.apparels, req.body_type, d)} :
            IF buckets = FileNotFoundError
            THEN /\ pc' = "raised"
                 /\ UNCHANGED frames
            ELSE \E placements \in {placements_of(req, tree, d, buckets)} :
                    /\ frames' = Append(frames, compose_frame(placements, d))
                    /\ pc' = "loop"
    /\ UNCHANGED <<req, tree, dirs, out, call, ret>>

\* The frames are stitched and the sheet returned, lines 190-198
Stitch ==
    /\ pc = "loop"
    /\ Len(frames) = Len(dirs)
    /\ out' = stitch(frames)
    /\ pc' = "done"
    /\ UNCHANGED <<req, tree, dirs, frames, call, ret>>

Next == Enter \/ RenderDirection \/ Stitch

Spec == Init /\ [][Next]_vars

\* ------------------------------------------------- single function calls

\* The inputs of get_off: maps from some of MapKeys to OffsetValues
MapKeys == {"south", "east"}
OffsetValues == {<<0, 0>>, <<0, -30>>, <<5, 2>>}
OffsetMaps == UNION {[D -> OffsetValues] : D \in SUBSET MapKeys}

\* The inputs of apply_color: a 3 x 2 raster with a 2 x 1 box of one pixel
\* value, and a target colour
Channels == {0, 100, 255}
Alphas == {0, 1, 128, 255}
NoPath == Path(<<"memory">>, <<"image">>, "png")
SmallImage(px) ==
    [w |-> 3, h |-> 2, bx |-> 1, by |-> 0, bw |-> 2, bh |-> 1, px |-> px, src |-> NoPath]
TargetChannels == {0, 128, 255}

\* The inputs of load_apparel: a tree with any of the six candidates of
\* Apparel/Hood for body type Male facing south, and one without Apparel/Hood
HoodCandidates ==
    Range(VariantCandidates("Hood", "Hood", "Male", "south", "png"))
    \cup Range(VariantCandidates("Hood", "Hood", "Male", "south", "psd"))
HoodTrees ==
    {[files |-> fs, adirs |-> {"Hood"}, apparel |-> TRUE, psd |-> psd] :
        fs \in SUBSET HoodCandidates, psd \in BOOLEAN}
    \cup {[files |-> {}, adirs |-> {}, apparel |-> TRUE, psd |-> TRUE]}

\* The inputs of find_head: a tree with any of the head files below, for a
\* gendered head, a head without gender prefix and no head at all
HeadNames == {"Male_Average_Normal", "None_Average_Skull", NoName}
HeadFiles ==
    {Path(dir, <<"Male_Average_Normal", "south">>, ext) :
        dir \in {<<"Heads", "Male">>, <<"Heads">>}, ext \in {"png", "psd"}}
    \cup {Path(dir, <<"None_Average_Skull", "south">>, "psd") : dir \in {<<"Heads", "None">>, <<"Heads">>}}
    \cup {Path(<<"Heads">>, <<"None_Average_Skull", "south">>, "png")}
HeadTrees ==
    {[files |-> fs, adirs |-> {}, apparel |-> TRUE, psd |-> psd] :
        fs \in SUBSET HeadFiles, psd \in BOOLEAN}

\* The inputs of normalize_image: rasters of the sizes below with one pixel
\* value on the whole raster or on all but its first column and last row,
\* and 256 x 256 rasters of one pixel value
NormalizeSides == {42, 127, 128, 129, 256}
NormalizePixels == {<<255, 100, 0, 255>>, <<10, 20, 30, 128>>, <<255, 0, 0, 0>>}
NormalizeInputs ==
    {[w |-> w, h |-> h, bx |-> b, by |-> 0, bw |-> w - b, bh |-> h - b, px |-> px, src |-> NoPath] :
        w \in NormalizeSides, h \in NormalizeSides, b \in {0, 1}, px \in NormalizePixels}
    \ {img \in [w : {DOUBLE}, h : {DOUBLE}, bx : {1}, by : {0}, bw : {DOUBLE - 1},
                 bh : {DOUBLE - 1}, px : NormalizePixels, src : {NoPath}] : TRUE}

NoTree == [files |-> {}, adirs |-> {}, apparel |-> TRUE, psd |-> TRUE]

InitCall ==
    /\ pc = "fn"
    /\ req = None
    /\ dirs = <<>>
    /\ frames = <<>>
    /\ out = None
    /\ ret = None
    /\ \/ /\ tree = NoTree
          /\ \E d \in MapKeys \cup {"west"}, provided \in {None} \cup OffsetMaps,
                defaults \in OffsetMaps :
                call = [fn |-> "get_off", d |-> d, provided |-> provided, defaults |-> defaults]
       \/ /\ tree = NoTree
          /\ \E r \in Channels, g \in Channels, b \in Channels, a \in Alphas,
                tr \in TargetChannels, tg \in TargetChannels, tb \in TargetChannels :
                call = [fn |-> "apply_color", img |-> SmallImage(<<r, g, b, a>>),
                        rgb |-> [r |-> tr, g |-> tg, b |-> tb],
                        given |-> SmallImage(<<r, g, b, a>>)]
       \/ /\ tree \in HoodTrees
          /\ \E name \in {"Hood", "hood"} :
                call = [fn |-> "load_apparel", name |-> name, body_type |-> "Male",
                        direction |-> "south"]
       \/ /\ tree = NoTree
          /\ \E img \in NormalizeInputs : call = [fn |-> "normalize_image", img |-> img]
       \/ /\ tree \in HeadTrees
          /\ \E head_name \in HeadNames :
                call = [fn |-> "find_head", head_name |-> head_name, direction |-> "south"]

GetOffCall ==
    /\ pc = "fn" /\ call.fn = "get_off"
    /\ ret' = get_off(call.d, call.provided, call.defaults)
    /\ pc' = "returned"
    /\ UNCHANGED <<req, tree, dirs, frames, out, call>>

\* No statement of apply_color writes through img: given is the image as it
\* was handed in, kept to compare with
ApplyColorCall ==
    /\ pc = "fn" /\ call.fn = "apply_color"
    /\ ret' = apply_color(call.img, call.rgb)
    /\ pc' = "returned"
    /\ UNCHANGED <<req, tree, dirs, frames, out, call>>

LoadApparelCall ==
    /\ pc = "fn" /\ call.fn = "load_apparel"
    /\ ret' = load_apparel(tree, call.name, call.body_type, call.direction)
    /\ pc' = "returned"
    /\ UNCHANGED <<req, tree, dirs, frames, out, call>>

FindHeadCall ==
    /\ pc = "fn" /\ call.fn = "find_head"
    /\ ret' = find_head(tree, call.head_name, call.direction)
    /\ pc' = "returned"
    /\ UNCHANGED <<req, tree, dirs, frames, out, call>>

NormalizeImageCall ==
    /\ pc = "fn" /\ call.fn = "normalize_image"
    /\ \E outcome \in NormalizeOutcomes(call.img) : ret' = outcome
    /\ pc' = "returned"
    /\ UNCHANGED <<req, tree, dirs, frames, out, call>>

NextCall ==
    GetOffCall \/ ApplyColorCall \/ LoadApparelCall \/ FindHeadCall \/ NormalizeImageCall

SpecCall == InitCall /\ [][NextCall]_vars

\* ---------------------------------------------------------- command line

\* main of src/rwpawn/cli.py on its plain path (no --grid-* option).  An
\* option is NoOption when it was not given (argparse's default None) and
\* Option(text) when it was given with the string text.
NoOption == [given |-> FALSE]
Option(text) == [given |-> TRUE, text |-> text]

\* str.strip() on the items of the --dirs values of the model
Strip(item) ==
    CASE item = " east" -> "east"
      [] item = " "     -> ""
      [] OTHER          -> item

\* [d.strip() for d in str(args.dirs).split(",") if d.strip()], on the
\* value's items between commas
parse_dirs(items) ==
    SelectSeq([i \in DOMAIN items |-> Strip(items[i])], LAMBDA d : d # "")

\* _parse_xy on the offset strings of the model: whether it returns, and
\* what; on the others it raises SystemExit
XYStrings == {"0,0", "4,-3", " 7 , 20", "0,-6", "-2,5", "5, 0"}
parse_xy(val) ==
    CASE val = "0,0"      -> <<0, 0>>
      [] val = "4,-3"     -> <<4, -3>>
      [] val = " 7 , 20"  -> <<7, 20>>
      [] val = "0,-6"     -> <<0, -6>>
      [] val = "-2,5"     -> <<-2, 5>>
      [] val = "5, 0"     -> <<5, 0>>

\* _parse_color likewise: "#RRGGBB" and "R,G,B" strings
ColorStrings == {"#000000", "#C80A0A", "10,200,10", "#78503C", "90, 60, 30", "#0a0ac8",
                 "255,255,255", "#5A5A00", "0,90,90", "#FA00FA"}
parse_color(val) ==
    CASE val = "#000000"     -> [r |-> 0, g |-> 0, b |-> 0]
      [] val = "#C80A0A"     -> [r |-> 200, g |-> 10, b |-> 10]
      [] val = "10,200,10"   -> [r |-> 10, g |-> 200, b |-> 10]
      [] val = "#78503C"     -> [r |-> 120, g |-> 80, b |-> 60]
      [] val = "90, 60, 30"  -> [r |-> 90, g |-> 60, b |-> 30]
      [] val = "#0a0ac8"     -> [r |-> 10, g |-> 10, b |-> 200]
      [] val = "255,255,255" -> [r |-> 255, g |-> 255, b |-> 255]
      [] val = "#5A5A00"     -> [r |-> 90, g |-> 90, b |-> 0]
      [] val = "0,90,90"     -> [r |-> 0, g |-> 90, b |-> 90]
      [] val = "#FA00FA"     -> [r |-> 250, g |-> 0, b |-> 250]

\* The offset roles with options, and the --color-* options
CliRoles == {"body", "head", "canvas", "hair", "eyes", "headgear"}
ColorOptions == {"hair", "beard", "headgear", "skin", "body", "pants", "shirt", "outer",
                 "belt", "apparel"}

\* Lines 143-167 and 408-432: the map of one role.  The global option is
\* entered for every d in dirs, then the per-direction options for north,
\* south and east over it.
offset_map(a, role, ds) ==
    LET from_global == IF a.offset[role].given THEN Range(ds) ELSE {}
        from_direction == {d \in Range(DIRECTIONS) : a.offset_d[role][d].given}
    IN [d \in from_global \cup from_direction |->
          IF d \in from_direction THEN parse_xy(a.offset_d[role][d].text)
          ELSE parse_xy(a.offset[role].text)]

\* "m or None" for a dict m
OrNone(m) == IF DOMAIN m = {} THEN None ELSE m

\* Lines 169-202: the built-in table with the options over it
colors_of(a) ==
    LET skin_val == IF a.color["skin"].given THEN a.color["skin"] ELSE a.color["body"]
    IN [key \in DOMAIN CliColors \cup (IF a.color["apparel"].given THEN {"apparel"} ELSE {}) |->
          IF key \in {"body", "head"}
          THEN (IF skin_val.given THEN parse_color(skin_val.text) ELSE CliColors[key])
          ELSE IF a.color[key].given THEN parse_color(a.color[key].text)
          ELSE CliColors[key]]

\* f"{args.body_type}_Average_Normal" on the body types of the model
AverageNormal(body_type) ==
    CASE body_type = "Male"   -> "Male_Average_Normal"
      [] body_type = "Female" -> "Female_Average_Normal"

\* The strings main parses: SystemExit is raised when one is malformed
ParsedStrings(a) ==
    [xy |-> {a.offset[role].text : role \in {r \in CliRoles : a.offset[r].given}}
            \cup {a.offset_d[rd[1]][rd[2]].text :
                     rd \in {q \in CliRoles \X Range(DIRECTIONS) : a.offset_d[q[1]][q[2]].given}},
     color |-> {a.color[o].text : o \in {k \in ColorOptions \ {"body"} : a.color[k].given}}
               \cup (IF a.color["body"].given /\ ~a.color["skin"].given
                     THEN {a.color["body"].text} ELSE {})]

\* Lines 434-451: the call of compose_preview
request_of(a) ==
    LET ds == parse_dirs(a.dirs)
        gendered == a.body_type \in {"Male", "Female"}
    IN [body_type |-> a.body_type, hair |-> a.hair, beard |-> a.beard,
        head |-> IF a.head = NoName /\ gendered THEN AverageNormal(a.body_type) ELSE a.head,
        eyes |-> a.eyes,
        eyes_gender |-> IF a.eyes_gender # NoName THEN a.eyes_gender
                        ELSE IF gendered THEN a.body_type ELSE NoName,
        apparels |-> a.apparel,
        directions |-> List(ds),
        body_offsets |-> OrNone(offset_map(a, "body", ds)),
        head_offsets |-> OrNone(offset_map(a, "head", ds)),
        hair_offsets_rel |-> OrNone(offset_map(a, "hair", ds)),
        eyes_offsets_rel |-> OrNone(offset_map(a, "eyes", ds)),
        beard_offsets_rel |-> None,
        headgear_offsets_rel |-> OrNone(offset_map(a, "headgear", ds)),
        canvas_offsets |-> OrNone(offset_map(a, "canvas", ds)),
        colors |-> colors_of(a)]

\* The command lines of the model.  The items of a --dirs value:
DirItems == {"north", "south", "east", "west", "", " east"}
DirsValues == {DIRECTIONS} \cup SeqsUpTo(DirItems, MaxDirs)

\* the global offset options of the roles in G, one string per role;
GlobalText ==
    [body |-> "4,-3", head |-> "0,-6", canvas |-> " 7 , 20", hair |-> "-2,5", eyes |-> "0,0",
     headgear |-> "5, 0"]
GlobalOffsets(G) == [role \in CliRoles |-> IF role \in G THEN Option(GlobalText[role]) ELSE NoOption]

\* the per-direction offset options of every role for the directions in D,
\* one string per direction (bad stands for a malformed one);
DirectionText == [north |-> "0,0", south |-> "-2,5", east |-> "0,-6"]
DirectionOffsets(D, bad) ==
    [role \in CliRoles |->
        [d \in Range(DIRECTIONS) |->
            IF d \in D THEN Option(IF bad /\ role = "hair" THEN "0;0" ELSE DirectionText[d])
            ELSE NoOption]]

\* the --color-* options in K, one string per option.
ColorText ==
    [hair |-> "#000000", beard |-> "#C80A0A", headgear |-> "10,200,10", skin |-> "#78503C",
     body |-> "90, 60, 30", pants |-> "#0a0ac8", shirt |-> "255,255,255", outer |-> "#5A5A00",
     belt |-> "0,90,90", apparel |-> "#FA00FA"]
ColorsGiven(K, bad) ==
    [o \in ColorOptions |->
        IF o \in K THEN Option(IF bad /\ o = "belt" THEN "teal" ELSE ColorText[o]) ELSE NoOption]

Args(body_type, ds, G, D, K, bad) ==
    [fn |-> "main", body_type |-> body_type, hair |-> "Afro", beard |-> NoName, head |-> NoName,
     eyes |-> "GrayEyes", eyes_gender |-> NoName, apparel |-> <<"CowboyHat", "Mystery">>,
     dirs |-> ds, offset |-> GlobalOffsets(G), offset_d |-> DirectionOffsets(D, bad),
     color |-> ColorsGiven(K, bad)]

CommandLines ==
    {Args("Male", ds, G, D, {}, FALSE) :
        ds \in {DIRECTIONS, <<"south">>}, G \in SUBSET CliRoles,
        D \in {{}, {"south", "east"}, {"north"}}}
    \cup {Args(bt, ds, G, D, {}, FALSE) :
        bt \in {"Male", "Thin"}, ds \in DirsValues, G \in {{}, CliRoles}, D \in {{}, {"south", "east"}}}
    \cup {Args("Male", DIRECTIONS, {}, {}, K, FALSE) : K \in UpTo(ColorOptions, 2) \cup {ColorOptions}}
    \cup {Args("Male", DIRECTIONS, {}, D, K, TRUE) : D \in {{}, {"east"}}, K \in {{}, {"belt"}}}

InitCli ==
    /\ pc = "main"
    /\ call \in CommandLines
    /\ tree = ReferenceTree
    /\ req = None
    /\ dirs = <<>>
    /\ frames = <<>>
    /\ out = None
    /\ ret = None

\* main up to its call of compose_preview, or to the SystemExit of
\* _parse_xy or _parse_color
Main ==
    /\ pc = "main"
    /\ LET parsed == ParsedStrings(call)
       IN IF parsed.xy \subseteq XYStrings /\ parsed.color \subseteq ColorStrings
          THEN req' = request_of(call) /\ pc' = "call"
          ELSE req' = req /\ pc' = "exit"
    /\ UNCHANGED <<tree, dirs, frames, out, call, ret>>

NextCli == Main \/ Enter \/ RenderDirection \/ Stitch

SpecCli == InitCli /\ [][NextCli]_vars

\* ---------------------------------------------------------------- claims

\* The frame the loop has just composed
Composed == pc = "loop" /\ frames # <<>>
LastFrame == frames[Len(frames)]

\* The placement of a painted layer in the working canvas of its frame
Placed(fr, i) == <<fr.placements[i].x, fr.placements[i].y>>

HasRole(fr, role) == \E i \in DOMAIN fr.painted : fr.painted[i].role = role

\* The fixed occlusion order of section 3 of the specification
Rank(role) ==
    CASE role = "body" -> 1 [] role = "pants" -> 2 [] role = "shirt" -> 3
      [] role = "outer" -> 4 [] role = "belt" -> 5 [] role = "head" -> 6
      [] role = "hair" -> 7 [] role = "eyes" -> 8 [] role = "beard" -> 9
      [] role = "headgear" -> 10 [] role = "apparel" -> 11

\* The corners of the overlaps of the painted boxes of a frame
Corners(fr) ==
    {<<fr.painted[i].x + fr.painted[i].img.bx, fr.painted[j].y + fr.painted[j].img.by>> :
        i \in DOMAIN fr.painted, j \in DOMAIN fr.painted}

OpaqueAt(fr, i, q) ==
    PixelAt(fr.painted[i].img, fr.painted[i].x, fr.painted[i].y, q[1], q[2])[4] = 255

C2_BoundingBox ==
    Composed =>
        LET fr == LastFrame
            P == fr.placements
        IN  P # <<>> =>
              LET min_x == Min({P[i].x : i \in DOMAIN P})
                  min_y == Min({P[i].y : i \in DOMAIN P})
              IN /\ fr.w = Max({P[i].x + P[i].img.w : i \in DOMAIN P}) - min_x
                 /\ fr.h = Max({P[i].y + P[i].img.h : i \in DOMAIN P}) - min_y
                 /\ DOMAIN fr.painted = DOMAIN P
                 /\ \A i \in DOMAIN P :
                      /\ fr.painted[i].img = P[i].img
                      /\ fr.painted[i].x = P[i].x - min_x
                      /\ fr.painted[i].y = P[i].y - min_y
                      /\ 0 <= fr.painted[i].x /\ fr.painted[i].x + P[i].img.w <= fr.w
                      /\ 0 <= fr.painted[i].y /\ fr.painted[i].y + P[i].img.h <= fr.h
                 /\ \E i \in DOMAIN P : fr.painted[i].x = 0
                 /\ \E i \in DOMAIN P : fr.painted[i].y = 0
                 /\ \E i \in DOMAIN P : fr.painted[i].x + P[i].img.w = fr.w
                 /\ \E i \in DOMAIN P : fr.painted[i].y + P[i].img.h = fr.h

\* C2 witness: a frame with layers placed left of and above the origin of the
\* working canvas, larger than a tile both ways
C2_Witness ==
    /\ Composed
    /\ LastFrame.min_x < 0 /\ LastFrame.min_y < 0
    /\ LastFrame.w > TILE /\ LastFrame.h > TILE
    /\ Len(LastFrame.painted) > 1

\* The three-tier rule of section 4.2 of the specification
Tier(override, defaults, d) ==
    IF override # None /\ d \in DOMAIN override THEN override[d]
    ELSE IF d \in DOMAIN defaults THEN defaults[d]
    ELSE <<0, 0>>

RelativeRoles == {"hair", "eyes", "beard", "headgear"}

RelativeOffset(role, d) ==
    CASE role = "hair"     -> Tier(req.hair_offsets_rel, default_hair_offsets_rel, d)
      [] role = "eyes"     -> Tier(req.eyes_offsets_rel, default_eyes_offsets_rel, d)
      [] role = "beard"    -> Tier(req.beard_offsets_rel, default_beard_offsets_rel, d)
      [] role = "headgear" -> Tier(req.headgear_offsets_rel, default_headgear_offsets_rel, d)

\* C4: hair, eyes, beard and headgear are placed at canvas offset + head
\* offset + their own relative offset, each by the three-tier rule; the eyes
\* sprite, at its native size, is moreover centred on that point of the tile.
C4_RelativePlacement ==
    Composed =>
        LET fr == LastFrame
            c == Tier(req.canvas_offsets, default_canvas_offsets, fr.d)
            h == Tier(req.head_offsets, default_head_offsets, fr.d)
        IN \A i \in DOMAIN fr.painted :
             LET l == fr.painted[i]
                 rel == RelativeOffset(l.role, fr.d)
                 abs == <<c[1] + h[1] + rel[1], c[2] + h[2] + rel[2]>>
             IN /\ l.role \in RelativeRoles \ {"eyes"} => Placed(fr, i) = abs
                /\ l.role = "eyes" =>
                     /\ Placed(fr, i) = <<64 - FloorDiv(l.img.w, 2) + abs[1],
                                          64 - FloorDiv(l.img.h, 2) + abs[2]>>
                     /\ <<l.img.w, l.img.h>> = FileSize(l.img.src)

\* C4 witness: a south frame with hair, eyes, beard and headgear, under a
\* canvas, a head and a hair override
C4_Witness ==
    /\ Composed
    /\ LastFrame.d = "south"
    /\ \A role \in RelativeRoles : HasRole(LastFrame, role)
    /\ req.canvas_offsets # None /\ req.head_offsets # None /\ req.hair_offsets_rel # None
    /\ req.eyes = "WideEyes"

\* C5: the sheet is as wide as its frames together and as high as the
\* highest; the frames lie on it in order, top-aligned, each starting where
\* the one before it ends.
C5_SheetLayout ==
    pc = "done" =>
        /\ out.w = SumSeq([i \in DOMAIN frames |-> frames[i].w])
        /\ \A i \in DOMAIN frames : frames[i].h <= out.h
        /\ \E i \in DOMAIN frames : frames[i].h = out.h
        /\ DOMAIN out.painted = DOMAIN frames
        /\ \A i \in DOMAIN frames :
             /\ out.painted[i].frame = frames[i]
             /\ out.painted[i].y = 0
             /\ out.painted[i].x = IF i = 1 THEN 0 ELSE out.painted[i - 1].x + frames[i - 1].w
             /\ out.painted[i].x + frames[i].w <= out.w

\* C5 witness: a sheet of frames of differing widths and heights
C5_Witness ==
    /\ pc = "done"
    /\ \E i, j \in DOMAIN frames : frames[i].w # frames[j].w
    /\ \E i, j \in DOMAIN frames : frames[i].h < frames[j].h

\* The directions of the frames of the sheet, in order
SheetDirections == [i \in DOMAIN out.painted |-> out.painted[i].frame.d]

\* C6 as stated: for every list of requested directions, the empty list
\* included, the sheet holds one frame per requested direction, in request
\* order, and none for a direction that was not requested.
C6_FramesAsRequested ==
    (pc = "done" /\ req.directions # None) => SheetDirections = req.directions.list

\* C6 amended: for every non-empty list of requested directions the sheet
\* holds one frame per requested direction, in request order, and no other;
\* an empty list, like an absent one, is rendered as north, south, east.
C6_FramesFollowRequest ==
    pc = "done" =>
        SheetDirections = IF req.directions = None \/ req.directions.list = <<>>
                          THEN <<"north", "south", "east">>
                          ELSE req.directions.list

\* C6 witness: a sheet for a list that is not in canonical order
C6_Witness ==
    /\ pc = "done"
    /\ req.directions = List(<<"east", "north">>)
    /\ SheetDirections = <<"east", "north">>

BeardFile(d) == Path(<<"Beards">>, <<"Beard", req.beard, d>>, "png")

\* C7: a north frame has no beard layer, whatever the tree holds; a south or
\* east frame has one whenever a beard is requested and its file exists.
C7_NoNorthBeard ==
    Composed =>
        /\ LastFrame.d = "north" => ~HasRole(LastFrame, "beard")
        /\ (/\ LastFrame.d \in {"south", "east"}
            /\ req.beard # NoName
            /\ BeardFile(LastFrame.d) \in tree.files) => HasRole(LastFrame, "beard")

\* C7 witness: one render, of a tree that holds a north beard file, whose
\* north frame has no beard and whose south frame has one
C7_Witness ==
    /\ pc = "loop"
    /\ req.beard = "Full"
    /\ BeardFile("north") \in tree.files
    /\ \E i, j \in DOMAIN frames :
         /\ frames[i].d = "north" /\ ~HasRole(frames[i], "beard")
         /\ frames[j].d = "south" /\ HasRole(frames[j], "beard")

\* C8 as stated: every layer whose category key has an entry in the colour
\* table is tinted with that entry before it is composited, the body and
\* the head layer with the skin tone among them.
C8_KeyedLayersTinted ==
    Composed =>
        \A i \in DOMAIN LastFrame.painted :
            LET l == LastFrame.painted[i]
            IN HasKey(req.colors, l.role) =>
                 l.img.px = TintPixel(FilePixel(l.img.src), req.colors[l.role])

Returned(fn) == pc = "returned" /\ call.fn = fn

\* C3: get_off returns the override map's entry for d when it has one, else
\* the defaults map's entry for d when it has one, else (0,0); an override of
\* (0,0) counts as an override.
C3_ThreeTier ==
    Returned("get_off") =>
        LET overridden == call.provided # None /\ call.d \in DOMAIN call.provided
            defaulted == call.d \in DOMAIN call.defaults
        IN /\ overridden => ret = call.provided[call.d]
           /\ (~overridden /\ defaulted) => ret = call.defaults[call.d]
           /\ (~overridden /\ ~defaulted) => ret = <<0, 0>>

\* C3 witness: an explicit override of (0,0) wins over a default that is not
C3_Witness ==
    /\ Returned("get_off")
    /\ call.provided # None /\ call.d \in DOMAIN call.provided
    /\ call.provided[call.d] = <<0, 0>>
    /\ call.d \in DOMAIN call.defaults /\ call.defaults[call.d] = <<0, -30>>
    /\ ret = <<0, 0>>

\* C9: apply_color with a target colour returns an image of the same size
\* whose alpha is the input's at every pixel and whose colour at a pixel is
\* the target colour scaled by that pixel's luminance; the input is as it was.
C9_TintKeepsAlpha ==
    Returned("apply_color") =>
        /\ ret.w = call.given.w /\ ret.h = call.given.h
        /\ \A x \in 0 .. call.given.w - 1, y \in 0 .. call.given.h - 1 :
             LET p == PixelAt(call.given, 0, 0, x, y)
                 q == PixelAt(ret, 0, 0, x, y)
                 l == Luminance(p)
             IN /\ q[4] = p[4]
                /\ <<q[1], q[2], q[3]>> = << (l * call.rgb.r) \div 255, (l * call.rgb.g) \div 255,
                                            (l * call.rgb.b) \div 255 >>
        /\ call.img = call.given

\* C9 witness: a half-transparent coloured pixel tinted black keeps its alpha
C9_Witness ==
    /\ Returned("apply_color")
    /\ call.rgb = [r |-> 0, g |-> 0, b |-> 0]
    /\ call.given.px = <<255, 100, 0, 128>>
    /\ ret.px = <<0, 0, 0, 128>>

\* The candidates of Apparel/Hood that exist, in a given order
ExistingHood(order) == SelectSeq(order, LAMBDA p : p \in tree.files)

HoodPng == VariantCandidates("Hood", "Hood", "Male", "south", "png")
HoodPsd == VariantCandidates("Hood", "Hood", "Male", "south", "psd")

\* C10 as stated: load_apparel returns the image of the first existing file
\* in the order body-type+direction .png, .psd, direction .png, .psd, name
\* .png, .psd (taken with psd_tools installed, so that every file decodes).
C10_SpecificityFirst ==
    (Returned("load_apparel") /\ tree.psd) =>
        LET existing == ExistingHood(<<HoodPng[1], HoodPsd[1], HoodPng[2], HoodPsd[2],
                                       HoodPng[3], HoodPsd[3]>>)
        IN existing # <<>> => (ret # None /\ ret.src = existing[1])

\* C10 amended: load_apparel returns the image of the first existing file in
\* the order body-type+direction .png, direction .png, name .png, then
\* body-type+direction .psd, direction .psd, name .psd: any .png comes before
\* every .psd.  Without psd_tools the .psd files are passed over.  With no
\* such file, or no directory of that name, it returns None.
C10_PngFirst ==
    Returned("load_apparel") =>
        LET existing == ExistingHood(HoodPng \o (IF tree.psd THEN HoodPsd ELSE <<>>))
        IN IF "Hood" \notin tree.adirs \/ existing = <<>>
           THEN ret = None
           ELSE /\ ret # None
                /\ ret.src = existing[1]
                /\ ret.px = FilePixel(existing[1])

\* C10 witness: the direction-only .png is returned although the
\* body-type+direction .psd exists and decodes
C10_Witness ==
    /\ Returned("load_apparel")
    /\ tree.psd
    /\ HoodPsd[1] \in tree.files /\ HoodPng[1] \notin tree.files
    /\ ret # None /\ ret.src = HoodPng[2]

\* The candidate paths of a head in the order of section 4.1 of the
\* specification: the gendered subdirectory for a Male_ or Female_ name, .png
\* before .psd, then the top level, .png before .psd
HeadOrder(head_name, direction) ==
    LET stem == <<head_name, direction>>
        gendered(g) == << Path(<<"Heads", g>>, stem, "png"), Path(<<"Heads", g>>, stem, "psd") >>
        flat == << Path(<<"Heads">>, stem, "png"), Path(<<"Heads">>, stem, "psd") >>
    IN CASE head_name = "Male_Average_Normal"   -> gendered("Male") \o flat
         [] head_name = "Female_Average_Normal" -> gendered("Female") \o flat
         [] OTHER                               -> flat

\* C11 as stated: find_head returns the image of the first candidate, in the
\* order gendered .png, gendered .psd, top-level .png, top-level .psd, that
\* exists on disk; a later candidate is never used when an earlier one exists.
C11_FirstExisting ==
    (Returned("find_head") /\ call.head_name # NoName) =>
        LET existing == SelectSeq(HeadOrder(call.head_name, call.direction),
                                  LAMBDA p : p \in tree.files)
        IN existing # <<>> => (ret # None /\ ret.src = existing[1])

\* C11 amended: find_head returns the image of the first candidate in that
\* order that exists and decodes: a .psd candidate is passed over when
\* psd_tools is not installed, and a later candidate is then used although
\* the .psd exists.  With no such candidate, or no head name, it returns None.
C11_FirstDecodable ==
    Returned("find_head") =>
        IF call.head_name = NoName THEN ret = None
        ELSE LET decodable == SelectSeq(HeadOrder(call.head_name, call.direction),
                                        LAMBDA p : p \in tree.files /\ (p.ext = "png" \/ tree.psd))
             IN IF decodable = <<>> THEN ret = None
                ELSE /\ ret # None
                     /\ ret.src = decodable[1]
                     /\ ret.px = FilePixel(decodable[1])

\* C11 witness: without psd_tools the top-level .png is returned although the
\* gendered .psd exists
C11_Witness ==
    /\ Returned("find_head")
    /\ ~tree.psd
    /\ call.head_name = "Male_Average_Normal"
    /\ Path(<<"Heads", "Male">>, <<"Male_Average_Normal", "south">>, "psd") \in tree.files
    /\ Path(<<"Heads", "Male">>, <<"Male_Average_Normal", "south">>, "png") \notin tree.files
    /\ ret # None
    /\ ret.src = Path(<<"Heads">>, <<"Male_Average_Normal", "south">>, "png")

\* Two pixels that look the same: equal, or both fully transparent
SamePixel(p, q) == p = q \/ (p[4] = 0 /\ q[4] = 0)

\* The corners of a raster and of its box
SamplePoints(img) ==
    {0, img.bx, img.bx + img.bw - 1, img.w - 1} \X {0, img.by, img.by + img.bh - 1, img.h - 1}

\* C12 as stated: for every input size (w, h) normalize_image returns a
\* 128 x 128 image: the input itself when it is 128 x 128, the half-scale
\* resample when it is 256 x 256, and otherwise the input pasted at
\* ((128-w) div 2, (128-h) div 2) so that every source pixel is found with its
\* colour at its displaced position; normalizing the result again changes
\* nothing.
C12_NormalizeToTile ==
    Returned("normalize_image") =>
        LET img == call.img
            ox == FloorDiv(TILE - img.w, 2)
            oy == FloorDiv(TILE - img.h, 2)
        IN /\ ret # ValueError
           /\ ret.w = TILE /\ ret.h = TILE
           /\ (img.w = TILE /\ img.h = TILE) => ret = img
           /\ (img.w = DOUBLE /\ img.h = DOUBLE) =>
                 \A q \in SamplePoints(ret) :
                    SamePixel(PixelAt(ret, 0, 0, q[1], q[2]), PixelAt(img, 0, 0, 2 * q[1], 2 * q[2]))
           /\ (<<img.w, img.h>> \notin {<<TILE, TILE>>, <<DOUBLE, DOUBLE>>}) =>
                 \A q \in SamplePoints(img) :
                    /\ 0 <= q[1] + ox /\ q[1] + ox < TILE
                    /\ 0 <= q[2] + oy /\ q[2] + oy < TILE
                    /\ SamePixel(PixelAt(ret, 0, 0, q[1] + ox, q[2] + oy),
                                 PixelAt(img, 0, 0, q[1], q[2]))
           /\ normalize_image(ret) = ret

\* C13 as stated: whatever files and directories are missing from the tree
\* (an apparel directory, or Apparel/ itself), compose_preview raises nothing
\* and returns a sheet, and a layer is composited only from a file that exists.
C13_MissingAssetsNeverRaise ==
    /\ pc # "raised"
    /\ Composed => \A i \in DOMAIN LastFrame.painted : LastFrame.painted[i].img.src \in tree.files

\* The request of section 8 of the specification: body type Male, head
\* Male_Average_Normal, nothing else, south only, no overrides, on a tree
\* that holds both files
EndToEndRequest ==
    /\ req.body_type = "Male" /\ req.head = "Male_Average_Normal"
    /\ req.hair = NoName /\ req.beard = NoName /\ req.eyes = NoName
    /\ req.apparels = <<>>
    /\ req.directions = List(<<"south">>)
    /\ \A role \in Range(OffsetRoles) : req[role] = None
    /\ Path(<<"Bodies">>, <<"Naked", "Male", "south">>, "png") \in tree.files
    /\ Path(<<"Heads", "Male">>, <<"Male_Average_Normal", "south">>, "png") \in tree.files

\* C14: that request composites exactly two layers, the 128 x 128 body at
\* (0,10) and the 128 x 128 head at (0,-20), into a sheet of one frame 128
\* wide and 158 high, higher than a tile, with the head whole at its top.
C14_EndToEnd ==
    (pc = "done" /\ EndToEndRequest) =>
        /\ Len(frames) = 1
        /\ [i \in DOMAIN frames[1].placements |->
               <<frames[1].placements[i].role, frames[1].placements[i].x, frames[1].placements[i].y,
                 frames[1].placements[i].img.w, frames[1].placements[i].img.h>>]
             = << <<"body", 0, 10, 128, 128>>, <<"head", 0, -20, 128, 128>> >>
        /\ frames[1].painted[2].y = 0 /\ frames[1].painted[1].y = 30
        /\ out.w = 128 /\ out.h = 158 /\ out.h > TILE
        /\ out.painted = << [frame |-> frames[1], x |-> 0, y |-> 0] >>

\* C14 witness: the sheet of that request, 158 high
C14_Witness == pc = "done" /\ EndToEndRequest /\ out.h = 158 /\ Len(frames[1].painted) = 2

\* Whether the bounding box of a frame, in working-canvas coordinates,
\* contains the point q
BoxContains(fr, q) ==
    /\ fr.min_x <= q[1] /\ q[1] < fr.min_x + fr.w
    /\ fr.min_y <= q[2] /\ q[2] < fr.min_y + fr.h

BodyNotOverridden(fr) ==
    /\ HasRole(fr, "body")
    /\ ~(req.body_offsets # None /\ fr.d \in DOMAIN req.body_offsets)

ZeroCanvas == [d \in RequestDirs |-> <<0, 0>>]
FrameWithoutCanvasOffset(d) ==
    compose_frame(placements_of([req EXCEPT !.canvas_offsets = ZeroCanvas], tree, d,
                                collect_apparel_images(tree, req.apparels, req.body_type, d)), d)

\* C16 as stated: a canvas offset (cx,cy) pads the frame and shifts its
\* layers: against the frame of the same inputs under canvas offset (0,0) the
\* frame is larger by the padding and every layer lies displaced by (cx,cy)
\* in it (taken for offsets that point right and down).
C16_CanvasOffsetPads ==
    Composed =>
        LET fr == LastFrame
            c == Tier(req.canvas_offsets, default_canvas_offsets, fr.d)
        IN (fr.painted # <<>> /\ c[1] >= 0 /\ c[2] >= 0) =>
             LET base == FrameWithoutCanvasOffset(fr.d)
             IN /\ fr.w = base.w + c[1]
                /\ fr.h = base.h + c[2]
                /\ \A i \in DOMAIN fr.painted :
                     /\ fr.painted[i].x = base.painted[i].x + c[1]
                     /\ fr.painted[i].y = base.painted[i].y + c[2]

\* main has called compose_preview
Called == call.fn = "main" /\ pc \in {"call", "loop", "done"}

\* The argument of compose_preview that carries the offsets of a role
RoleArgument(role) ==
    CASE role = "body"     -> req.body_offsets
      [] role = "head"     -> req.head_offsets
      [] role = "canvas"   -> req.canvas_offsets
      [] role = "hair"     -> req.hair_offsets_rel
      [] role = "eyes"     -> req.eyes_offsets_rel
      [] role = "headgear" -> req.headgear_offsets_rel

\* What the offset strings of the model stand for
OffsetOf(text) ==
    CASE text = "0,0" -> <<0, 0>> [] text = "4,-3" -> <<4, -3>> [] text = " 7 , 20" -> <<7, 20>>
      [] text = "0,-6" -> <<0, -6>> [] text = "-2,5" -> <<-2, 5>> [] text = "5, 0" -> <<5, 0>>

\* C17 as stated: for each offset role of the command line and each rendered
\* direction d, the offset handed to compose_preview is the per-direction
\* option for d when given, otherwise the global option of the role when
\* given, otherwise absent.
C17_OptionPrecedence ==
    (Called /\ pc # "call") =>
        \A role \in CliRoles : \A i \in DOMAIN dirs :
            LET d == dirs[i]
                handed == RoleArgument(role)
                has == handed # None /\ d \in DOMAIN handed
                per == IF d \in {"north", "south", "east"} THEN call.offset_d[role][d] ELSE NoOption
            IN IF per.given THEN has /\ handed[d] = OffsetOf(per.text)
               ELSE IF call.offset[role].given THEN has /\ handed[d] = OffsetOf(call.offset[role].text)
               ELSE ~has

\* The built-in colours of the command line and what the colour strings of
\* the model stand for, as <<r, g, b>>
BuiltInColor ==
    [hair |-> <<59, 42, 31>>, beard |-> <<59, 42, 31>>, headgear |-> <<194, 168, 120>>,
     body |-> <<239, 208, 175>>, head |-> <<239, 208, 175>>, pants |-> <<58, 74, 90>>,
     shirt |-> <<159, 211, 242>>, outer |-> <<47, 62, 92>>, belt |-> <<85, 107, 120>>]
OptionColor ==
    [hair |-> <<0, 0, 0>>, beard |-> <<200, 10, 10>>, headgear |-> <<10, 200, 10>>,
     skin |-> <<120, 80, 60>>, body |-> <<90, 60, 30>>, pants |-> <<10, 10, 200>>,
     shirt |-> <<255, 255, 255>>, outer |-> <<90, 90, 0>>, belt |-> <<0, 90, 90>>,
     apparel |-> <<250, 0, 250>>]
Triple(rgb) == <<rgb.r, rgb.g, rgb.b>>
PlainKeys == {"hair", "beard", "headgear", "pants", "shirt", "outer", "belt"}

\* C18 as stated: each of the ten keys hair, beard, headgear, body, head,
\* pants, shirt, outer, belt, apparel is in the table handed to
\* compose_preview, with its built-in value unless its option was given.
C18_EveryKeyDefaulted ==
    (Called /\ pc = "call") =>
        /\ PlainKeys \cup {"body", "head", "apparel"} \subseteq DOMAIN req.colors
        /\ \A key \in PlainKeys :
             ~call.color[key].given => Triple(req.colors[key]) = BuiltInColor[key]

\* C18 amended: the table has the nine keys hair, beard, headgear, body,
\* head, pants, shirt, outer, belt, each with its built-in value unless its
\* option was given; body and head both take --color-skin, or --color-body
\* when --color-skin is not given; the key apparel is in the table only
\* when --color-apparel was given.
C18_ColorTable ==
    (Called /\ pc = "call") =>
        /\ DOMAIN req.colors
             = PlainKeys \cup {"body", "head"}
               \cup (IF call.color["apparel"].given THEN {"apparel"} ELSE {})
        /\ \A key \in PlainKeys :
             Triple(req.colors[key])
               = IF call.color[key].given THEN OptionColor[key] ELSE BuiltInColor[key]
        /\ \A key \in {"body", "head"} :
             Triple(req.colors[key])
               = IF call.color["skin"].given THEN OptionColor["skin"]
                 ELSE IF call.color["body"].given THEN OptionColor["body"]
                 ELSE BuiltInColor[key]
        /\ call.color["apparel"].given => Triple(req.colors["apparel"]) = OptionColor["apparel"]

\* C18 witness: --color-skin and --color-pants alone: body and head carry the
\* skin tone, pants its option, hair its built-in colour, and there is no
\* entry for apparel
C18_Witness ==
    /\ Called /\ pc = "call"
    /\ {o \in ColorOptions : call.color[o].given} = {"skin", "pants"}
    /\ Triple(req.colors["body"]) = <<120, 80, 60>>
    /\ Triple(req.colors["head"]) = <<120, 80, 60>>
    /\ Triple(req.colors["pants"]) = <<10, 10, 200>>
    /\ Triple(req.colors["hair"]) = <<59, 42, 31>>
    /\ "apparel" \notin DOMAIN req.colors

\* C19 as stated: the directions main hands to compose_preview, and the
\* frames rendered from them, are all among north, south, east.
C19_DirsValidated ==
    Called =>
        /\ \A i \in DOMAIN req.directions.list : req.directions.list[i] \in {"north", "south", "east"}
        /\ \A i \in DOMAIN frames : frames[i].d \in {"north", "south", "east"}

\* C20 as stated: uncategorized apparel is rendered above outer wear and
\* below headgear: where an opaque headgear pixel and an opaque pixel of
\* uncategorized apparel overlap, the frame shows the headgear's, and where
\* uncategorized apparel overlaps outer wear, the apparel's.
C20_ApparelBelowHeadgear ==
    Composed =>
        LET fr == LastFrame
        IN \A q \in Corners(fr) : \A i, j \in DOMAIN fr.painted :
             /\ (/\ fr.painted[i].role = "headgear" /\ OpaqueAt(fr, i, q)
                 /\ fr.painted[j].role = "apparel" /\ OpaqueAt(fr, j, q))
                  => FramePixel(fr, q[1], q[2]) = fr.painted[i].img.px
             /\ (/\ fr.painted[i].role = "outer" /\ OpaqueAt(fr, i, q)
                 /\ fr.painted[j].role = "apparel" /\ OpaqueAt(fr, j, q)
                 /\ ~HasRole(fr, "headgear"))
                  => FramePixel(fr, q[1], q[2]) = fr.painted[j].img.px

\* C21 as stated: the bucket of an apparel image does not depend on the
\* letter case of the requested name: every apparel layer of a frame is in
\* the bucket of the directory it was loaded from, also when the directory
\* was found through the case-insensitive fallback.
C21_CategoryIgnoresCase ==
    Composed =>
        \A i \in DOMAIN LastFrame.painted :
            LET l == LastFrame.painted[i]
            IN l.img.src.dir[1] = "Apparel" => l.role = categorize(l.img.src.dir[2])

BodyWornRoles == {"pants", "shirt", "outer", "belt", "apparel"}

\* C22: every pants, shirt, outer, belt and uncategorized apparel layer is
\* placed at exactly the canvas offset of its direction, whatever body, head
\* and head-relative overrides the request carries; the body layer alone is
\* moved by a body offset override.
C22_BodyWornAtCanvasOffset ==
    Composed =>
        LET fr == LastFrame
            c == Tier(req.canvas_offsets, default_canvas_offsets, fr.d)
        IN \A i \in DOMAIN fr.painted :
             /\ fr.painted[i].role \in BodyWornRoles => Placed(fr, i) = c
             /\ (/\ fr.painted[i].role = "body"
                 /\ req.body_offsets # None /\ fr.d \in DOMAIN req.body_offsets)
                  => Placed(fr, i) = <<c[1] + req.body_offsets[fr.d][1],
                                       c[2] + req.body_offsets[fr.d][2]>>

\* C22 witness: a south frame under a body, a head and a headgear override
\* in which all five kinds of clothing lie at the canvas offset and the body
\* does not
C22_Witness ==
    /\ Composed
    /\ LastFrame.d = "south"
    /\ req.body_offsets # None /\ req.head_offsets # None /\ req.headgear_offsets_rel # None
    /\ req.body_offsets["south"] = <<4, -3>>
    /\ \A role \in BodyWornRoles : HasRole(LastFrame, role)
    /\ \E i, j \in DOMAIN LastFrame.painted :
         /\ LastFrame.painted[i].role = "body"
         /\ LastFrame.painted[j].role = "pants"
         /\ Placed(LastFrame, i) # Placed(LastFrame, j)

====
